---------------------------- MODULE Spec2Model ----------------------------
(***************************************************************************)
(* Model of the two Google Calendar programs of the repository:            *)
(*   src/ai-agent.py     the conversational variant (LLM tool-call loop)   *)
(*   src/traditional.py  the menu variant (fetch / insert / exit)          *)
(* Both share the credential bootstrap (get_calendar_service) and the      *)
(* whitelist-gated gateway (calendar_api_call); they differ in             *)
(* ALLOWED_METHODS and in the driver layered on top.                       *)
(*                                                                         *)
(* The remote parties (OAuth endpoint, consent flow, Calendar service,     *)
(* language model, the user at the keyboard) are the environment: their    *)
(* answers are drawn with \E from small sets.                              *)
(***************************************************************************)
EXTENDS Integers, Sequences, FiniteSets, TLC

VARIABLES
    variant,    \* "agent" (src/ai-agent.py) or "menu" (src/traditional.py)
    driver,     \* who calls the gateway: "agent" main loop, "menu" main loop,
                \* or "direct" (calendar_api_call called as a module function)
    pc,         \* position of the single thread of control
    exc,        \* the exception that ended the process ("none" while it runs)
    tokenFile,  \* content of GOOGLE_TOKEN_FILE
    lastCall,   \* log of the last calendar_api_call of the current menu
                \* command / user turn (what it was given and what it did)
    reached,    \* (resource, method) pairs of requests executed remotely
    cmdCalls,   \* gateway calls made by the current menu command / user turn
    cmd,        \* menu: the command being run (or last run)
    out,        \* menu: the lines the current command has logged
    typed,      \* menu: the last line(s) the user typed at a prompt
    pending,    \* menu: the event insert_event has built so far
    history,    \* agent: input_messages
    response,   \* agent: the model reply process_response is given
    returned,   \* agent: what the last chat_with_agent returned
    turn        \* agent: counts of the current user turn

(***************************************************************************)
(* Bounds of the model (not program constants).                            *)
(***************************************************************************)
MaxHistory == 8
MaxReprompts == 2

(***************************************************************************)
(* Configuration constants of the two programs.                            *)
(***************************************************************************)
Variants == {"agent", "menu"}

AllowedResources(v) == {"events"}

\* fault: a whitelist that also lets patch through, in either variant
MutAllowedMethods(v) == {"list", "insert", "update", "delete", "patch"}

AllowedMethods(v) ==
    IF v = "agent" THEN {"list", "insert", "update", "delete"}
                   ELSE {"list", "insert"}

\* the resources and methods a caller may name (whitelisted or not)
Resources == {"events", "calendars"}
Methods   == {"list", "insert", "update", "delete", "patch"}

NotAllowedError == [error |-> "Method or resource not allowed."]

(***************************************************************************)
(* Credential Store.  A credential is what creds.valid / creds.expired /   *)
(* creds.refresh_token read: whether the access token has expired and      *)
(* whether a refresh token is present.  The token file holds creds.to_json *)
(* of the last credential saved, or does not exist.                        *)
(***************************************************************************)
NoFile == [exists |-> FALSE, expired |-> FALSE, refresh_token |-> FALSE]

TokenFiles ==
    {NoFile} \cup
    [exists : {TRUE}, expired : BOOLEAN, refresh_token : BOOLEAN]

\* what the remote parties do during one gateway call: the step that fails
\* (if it is reached), whether a consent flow hands out a refresh token, and
\* the decoded body the Calendar service answers with
Faults == {"none", "refresh", "flow", "build", "execute"}

\* _save_credentials: the file is overwritten in full with creds.to_json()
SaveCredentials(creds) ==
    [exists |-> TRUE, expired |-> creds.expired,
     refresh_token |-> creds.refresh_token]

\* fault: a credential with a refresh token is never taken as valid
MutCredsValid(f) == f.exists /\ ~f.expired /\ ~f.refresh_token

\* creds.valid of google.oauth2: a token that has not expired
CredsValid(f) == f.exists /\ ~f.expired

\* the elif branch: creds and creds.expired and creds.refresh_token
CredsRefreshable(f) == f.exists /\ f.expired /\ f.refresh_token

\* what get_calendar_service has done before it chooses its branch: the file
\* read by Credentials.from_authorized_user_file when os.path.exists says so
Loaded(file) ==
    [raised |-> FALSE, failedAt |-> "none", file |-> file,
     reads |-> IF file.exists THEN 1 ELSE 0,
     refreshes |-> 0, flows |-> 0, writes |-> 0, builds |-> 0]

\* fault: the refreshed credential is not saved
MutRefreshed(r) == [r EXCEPT !.refreshes = 1]

\* creds.refresh(Request()) succeeded; _save_credentials(creds)
Refreshed(r) ==
    [r EXCEPT !.refreshes = 1, !.writes = 1,
              !.file = SaveCredentials(
                  [expired |-> FALSE, refresh_token |-> r.file.refresh_token])]

\* flow.run_local_server(...) succeeded; _save_credentials(creds)
Consented(r, rt) ==
    [r EXCEPT !.flows = 1, !.writes = 1,
              !.file = SaveCredentials(
                  [expired |-> FALSE, refresh_token |-> rt])]

\* build("calendar", "v3", credentials=creds)
Built(r, env) ==
    IF env.fault = "build"
    THEN [r EXCEPT !.raised = TRUE, !.failedAt = "build", !.builds = 1]
    ELSE [r EXCEPT !.builds = 1]

\* get_calendar_service: load, then use / refresh+save / consent+save, then
\* build the client.  Returns what happened: whether an exception left the
\* function and where, the token file afterwards, and how often the file was
\* read, the refresh endpoint called, the consent flow run, the file written
\* and the client built.
GetCalendarService(file, env) ==
    LET r == Loaded(file)
    IN  IF CredsValid(file)
        THEN Built(r, env)
        ELSE IF CredsRefreshable(file)
        THEN IF env.fault = "refresh"
             THEN [r EXCEPT !.raised = TRUE, !.failedAt = "refresh",
                            !.refreshes = 1]
             ELSE Built(Refreshed(r), env)
        ELSE IF env.fault = "flow"
             THEN [r EXCEPT !.raised = TRUE, !.failedAt = "flow",
                            !.flows = 1]
             ELSE Built(Consented(r, env.flow_rt), env)

(***************************************************************************)
(* Calendar Gateway.                                                       *)
(***************************************************************************)
\* a Python dict as a function on its keys; d.get(k, default)
Get(d, k, default) == IF k \in DOMAIN d THEN d[k] ELSE default

\* keyword arguments the client's events methods accept / require; a call
\* method_obj(**params) outside them raises TypeError before any request
AcceptedKeywords(method) ==
    CASE method = "list"   -> {"calendarId", "timeMin", "timeMax",
                               "singleEvents", "orderBy", "maxResults"}
      [] method = "insert" -> {"calendarId", "body"}
      [] method = "update" -> {"calendarId", "eventId", "body"}
      [] method = "delete" -> {"calendarId", "eventId"}
      [] OTHER             -> {}

RequiredKeywords(method) ==
    CASE method \in {"update", "delete"} -> {"calendarId", "eventId"}
      [] OTHER                           -> {"calendarId"}

ParamsAccepted(method, params) ==
    /\ DOMAIN params \subseteq AcceptedKeywords(method)
    /\ RequiredKeywords(method) \subseteq DOMAIN params

\* events the Calendar service may list
Event1 == [start |-> [dateTime |-> "2025-07-06T10:00:00Z"],
           summary |-> "Standup"]
Event2 == [start |-> [date |-> "2025-07-06"]]

\* decoded bodies the Calendar service may answer a request with
ResponsesFor(method) ==
    CASE method = "list"   -> {[items |-> <<>>], [items |-> <<Event1>>],
                               [items |-> <<Event2, Event1>>]}
      [] method = "delete" -> {[body |-> ""]}
      [] OTHER             -> {[id |-> "ev1", htmlLink |-> "https://cal/ev1"]}

\* str(e) of the exception raised at each step
ErrorText(failedAt) ==
    CASE failedAt = "refresh" -> "RefreshError: invalid_grant"
      [] failedAt = "flow"    -> "AccessDeniedError: access_denied"
      [] failedAt = "build"   -> "UnknownApiNameOrVersion"
      [] failedAt = "params"  -> "TypeError: unexpected or missing keyword"
      [] OTHER                -> "HttpError 403"

\* the body of the try block: get_calendar_service(), the attribute lookups,
\* method_obj(**params) and .execute()
TryBody(resource, method, params, file, env) ==
    LET svc == GetCalendarService(file, env)
        o0  == [raised |-> svc.raised, failedAt |-> svc.failedAt,
                file |-> svc.file, reads |-> svc.reads,
                refreshes |-> svc.refreshes, flows |-> svc.flows,
                writes |-> svc.writes, builds |-> svc.builds,
                requests |-> 0, result |-> [error |-> "unset"]]
    IN  IF svc.raised THEN o0
        ELSE IF ~ParamsAccepted(method, params)
        THEN [o0 EXCEPT !.raised = TRUE, !.failedAt = "params"]
        ELSE IF env.fault = "execute"
        THEN [o0 EXCEPT !.raised = TRUE, !.failedAt = "execute",
                         !.requests = 1]
        ELSE [o0 EXCEPT !.requests = 1, !.result = env.response]

\* fault: the try block begins after get_calendar_service()
MutExceptException(o) ==
    IF o.raised /\ o.failedAt \in {"params", "execute"}
    THEN [o EXCEPT !.raised = FALSE,
                   !.result = [error |-> ErrorText(o.failedAt)]]
    ELSE o

\* except Exception as e: log, return {"error": str(e)}
ExceptException(o) ==
    IF o.raised
    THEN [o EXCEPT !.raised = FALSE,
                   !.result = [error |-> ErrorText(o.failedAt)]]
    ELSE o

\* calendar_api_call(resource, method, params) on token file `file`, with the
\* remote parties behaving as `env`
CalendarApiCall(v, resource, method, params, file, env) ==
    IF resource \notin AllowedResources(v) \/ method \notin AllowedMethods(v)
    THEN [raised |-> FALSE, failedAt |-> "none", file |-> file,
          reads |-> 0, refreshes |-> 0, flows |-> 0, writes |-> 0,
          builds |-> 0, requests |-> 0, result |-> NotAllowedError]
    ELSE ExceptException(TryBody(resource, method, params, file, env))

\* the environments worth telling apart for a call of `method`: nothing
\* fails and the service answers, or one step fails
Envs(method) ==
    LET answers == ResponsesFor(IF method \in Methods \ {"patch"}
                                THEN method ELSE "insert")
    IN  [fault : {"none"}, flow_rt : BOOLEAN, response : answers]
        \cup [fault : Faults \ {"none"}, flow_rt : {TRUE},
              response : {CHOOSE r \in answers : TRUE}]

\* the record kept of a call: its arguments, the token file it found, and
\* what it did
CallLog(resource, method, params, file, o) ==
    [made |-> TRUE, resource |-> resource, method |-> method,
     params |-> params, entry |-> file, exit |-> o.file,
     reads |-> o.reads, refreshes |-> o.refreshes, flows |-> o.flows,
     writes |-> o.writes, builds |-> o.builds, requests |-> o.requests,
     failedAt |-> o.failedAt, result |-> o.result, raised |-> o.raised]

NoCall ==
    [made |-> FALSE, resource |-> "", method |-> "",
     params |-> [calendarId |-> "primary"], entry |-> NoFile, exit |-> NoFile,
     reads |-> 0, refreshes |-> 0, flows |-> 0, writes |-> 0, builds |-> 0,
     requests |-> 0, failedAt |-> "none", result |-> [error |-> "unset"],
     raised |-> FALSE]

Reached(o, resource, method) ==
    IF o.requests > 0 THEN reached \cup {<<resource, method>>} ELSE reached

(***************************************************************************)
(* Menu variant: text the user types, as sequences of characters.          *)
(***************************************************************************)
Digit == {"0", "1", "2", "3", "4", "5", "6", "7", "8", "9"}

DigitVal(c) ==
    CASE c = "0" -> 0 [] c = "1" -> 1 [] c = "2" -> 2 [] c = "3" -> 3
      [] c = "4" -> 4 [] c = "5" -> 5 [] c = "6" -> 6 [] c = "7" -> 7
      [] c = "8" -> 8 [] OTHER -> 9

\* int(s[i..j]) for a run of digits
RECURSIVE Num(_, _, _)
Num(s, i, j) == IF j < i THEN 0 ELSE 10 * Num(s, i, j - 1) + DigitVal(s[j])

\* datetime.MINYEAR, datetime.MAXYEAR
MinYear == 1
MaxYear == 9999

IsLeap(y) == (y % 4 = 0 /\ y % 100 # 0) \/ y % 400 = 0

DaysInMonth(y, m) ==
    CASE m \in {4, 6, 9, 11} -> 30
      [] m = 2               -> IF IsLeap(y) THEN 29 ELSE 28
      [] OTHER               -> 31

\* DATE_REGEX = ^\d{4}-\d{2}-\d{2}$
DateRegexMatch(s) ==
    /\ Len(s) = 10
    /\ s[5] = "-" /\ s[8] = "-"
    /\ \A i \in {1, 2, 3, 4, 6, 7, 9, 10} : s[i] \in Digit

\* the date fields of a string DATE_REGEX matches
DateFields(s) == [y |-> Num(s, 1, 4), m |-> Num(s, 6, 7), d |-> Num(s, 9, 10)]

\* datetime's range check of (year, month, day): ValueError outside it
DateInRange(f) ==
    /\ MinYear <= f.y /\ f.y <= MaxYear
    /\ 1 <= f.m /\ f.m <= 12
    /\ 1 <= f.d /\ f.d <= DaysInMonth(f.y, f.m)

\* HH:MM as datetime.fromisoformat reads the part after the "T"
TimeFormatMatch(s) ==
    /\ Len(s) = 5
    /\ s[3] = ":"
    /\ \A i \in {1, 2, 4, 5} : s[i] \in Digit

TimeInRange(s) == Num(s, 1, 2) <= 23 /\ Num(s, 4, 5) <= 59

\* a datetime: a calendar day and the minute of that day
DateTime(f, minute) == [y |-> f.y, m |-> f.m, d |-> f.d, min |-> minute]

NextDay(t) ==
    IF t.d < DaysInMonth(t.y, t.m) THEN [t EXCEPT !.d = t.d + 1]
    ELSE IF t.m < 12 THEN [t EXCEPT !.m = t.m + 1, !.d = 1]
    ELSE [t EXCEPT !.y = t.y + 1, !.m = 1, !.d = 1]

PrevDay(t) ==
    IF t.d > 1 THEN [t EXCEPT !.d = t.d - 1]
    ELSE IF t.m > 1
    THEN [t EXCEPT !.m = t.m - 1, !.d = DaysInMonth(t.y, t.m - 1)]
    ELSE [t EXCEPT !.y = t.y - 1, !.m = 12, !.d = 31]

\* t + timedelta(minutes=n), for |n| of at most a day; the result may lie
\* outside datetime's range, where Python raises OverflowError
AddMinutes(t, n) ==
    LET total == t.min + n
    IN  IF total < 0 THEN [PrevDay(t) EXCEPT !.min = total + 1440]
        ELSE IF total >= 1440 THEN [NextDay(t) EXCEPT !.min = total - 1440]
        ELSE [t EXCEPT !.min = total]

Overflows(t) == t.y < MinYear \/ t.y > MaxYear

\* datetime.isoformat() of a UTC-aware datetime: YYYY-MM-DDTHH:MM:00+00:00
IsoFormat(t) ==
    [date |-> <<t.y, t.m, t.d>>, time |-> <<t.min \div 60, t.min % 60>>,
     offset |-> "+00:00"]

\* the offsets from UTC, in minutes, of the machine's local time zone
LocalOffsets == {0, -420}

(***************************************************************************)
(* prompt_date and fetch_events_for_date.                                  *)
(***************************************************************************)
Line(kind, text) == [kind |-> kind, text |-> text]

\* one pass of prompt_date's loop on the line s: the date it returns, or the
\* error it logs before asking again
PromptDate(s) ==
    IF DateRegexMatch(s)
    THEN IF DateInRange(DateFields(s))
         THEN [ok |-> TRUE, date |-> DateTime(DateFields(s), 0),
               log |-> <<>>]
         ELSE [ok |-> FALSE, date |-> DateTime(DateFields(s), 0),
               log |-> <<Line("error",
                              "Invalid date (out of range). Try again.")>>]
    ELSE [ok |-> FALSE, date |-> DateTime([y |-> 0, m |-> 0, d |-> 0], 0),
          log |-> <<Line("error", "Wrong format. Please use YYYY-MM-DD.")>>]

\* the params fetch_events_for_date builds
FetchParams(date_dt) ==
    [calendarId |-> "primary",
     timeMin |-> IsoFormat(date_dt),
     timeMax |-> IsoFormat(AddMinutes(date_dt, 1440)),
     singleEvents |-> TRUE,
     orderBy |-> "startTime"]

\* ev["start"].get("dateTime", ev["start"].get("date")) and
\* ev.get("summary", "(no title)")
EventLine(ev) ==
    [kind |-> "event",
     st |-> Get(ev.start, "dateTime", Get(ev.start, "date", "None")),
     title |-> Get(ev, "summary", "(no title)")]

\* what fetch_events_for_date logs for the gateway's result
FetchLog(date_dt, result) ==
    LET items == Get(result, "items", <<>>)
    IN  IF items = <<>>
        THEN <<[kind |-> "no_events", date |-> <<date_dt.y, date_dt.m, date_dt.d>>]>>
        ELSE <<[kind |-> "events_header",
                date |-> <<date_dt.y, date_dt.m, date_dt.d>>]>>
             \o [i \in 1..Len(items) |-> EventLine(items[i])]

(***************************************************************************)
(* prompt_emails and insert_event.                                         *)
(***************************************************************************)
\* str.strip() of a sequence of characters
RECURSIVE LStrip(_)
LStrip(s) == IF s # <<>> /\ Head(s) = " " THEN LStrip(Tail(s)) ELSE s

RECURSIVE RStrip(_)
RStrip(s) ==
    IF s # <<>> /\ s[Len(s)] = " " THEN RStrip(SubSeq(s, 1, Len(s) - 1))
    ELSE s

Strip(s) == RStrip(LStrip(s))

\* str.split(","): the pieces between the commas, empty ones included
RECURSIVE Split(_)
Split(s) ==
    IF \A i \in 1..Len(s) : s[i] # ","
    THEN <<s>>
    ELSE LET k == CHOOSE i \in 1..Len(s) :
                      s[i] = "," /\ \A j \in 1..(i - 1) : s[j] # ","
         IN  <<SubSeq(s, 1, k - 1)>> \o Split(SubSeq(s, k + 1, Len(s)))

NoAt(s, i, j) == \A k \in i..j : s[k] # "@"

\* EMAIL_REGEX = ^[^@]+@[^@]+\.[^@]+$ : some "@" at i and some "." at j with
\* non-empty runs free of "@" before i, between i and j, and after j
EmailRegexMatch(e) ==
    \E i \in 1..Len(e) : \E j \in 1..Len(e) :
        /\ e[i] = "@" /\ e[j] = "."
        /\ 1 < i /\ i + 1 < j /\ j < Len(e)
        /\ NoAt(e, 1, i - 1) /\ NoAt(e, i + 1, j - 1) /\ NoAt(e, j + 1, Len(e))

\* fault: any() in place of all()
MutAllMatch(parts) == \E i \in 1..Len(parts) : EmailRegexMatch(parts[i])

\* all(EMAIL_REGEX.match(e) for e in parts)
AllMatch(parts) == \A i \in 1..Len(parts) : EmailRegexMatch(parts[i])

\* one pass of prompt_emails' loop on the line typed: the attendee list it
\* returns, or a reprompt
PromptEmails(line) ==
    LET raw   == Strip(line)
        parts == [i \in 1..Len(Split(raw)) |-> Strip(Split(raw)[i])]
    IN  IF raw = <<>> THEN [ok |-> TRUE, attendees |-> <<>>]
        ELSE IF AllMatch(parts)
        THEN [ok |-> TRUE,
              attendees |-> [i \in 1..Len(parts) |-> [email |-> parts[i]]]]
        ELSE [ok |-> FALSE, attendees |-> <<>>]

\* x or default, for strings
OrDefault(x, default) == IF x = "" THEN default ELSE x

\* the try block of insert_event: datetime.fromisoformat(date T time), then
\* .astimezone(timezone.utc) from the machine's local time, then + 1 hour;
\* any exception aborts the insert
BuildStart(date_str, time_str, offset) ==
    IF ~(DateRegexMatch(date_str) /\ TimeFormatMatch(time_str))
    THEN [ok |-> FALSE]
    ELSE IF ~(DateInRange(DateFields(date_str)) /\ TimeInRange(time_str))
    THEN [ok |-> FALSE]
    ELSE LET naive == DateTime(DateFields(date_str),
                        60 * Num(time_str, 1, 2) + Num(time_str, 4, 5))
             start == AddMinutes(naive, 0 - offset)
             stop  == AddMinutes(start, 60)
         IN  IF Overflows(start) \/ Overflows(stop)
             THEN [ok |-> FALSE]
             ELSE [ok |-> TRUE, dt_start |-> start, dt_end |-> stop]

\* the body insert_event sends
InsertBody(p, attendees) ==
    [summary |-> p.title,
     description |-> p.description,
     start |-> [dateTime |-> IsoFormat(p.dt_start), timeZone |-> p.tz],
     end |-> [dateTime |-> IsoFormat(p.dt_end), timeZone |-> p.tz],
     attendees |-> attendees]

\* what insert_event logs for the gateway's answer
InsertLog(resp) ==
    IF Get(resp, "id", "") # ""
    THEN <<[kind |-> "created", link |-> resp.htmlLink]>>
    ELSE <<[kind |-> "failed", payload |-> resp]>>

(***************************************************************************)
(* State shared by the drivers.                                            *)
(***************************************************************************)
gatewayVars == <<tokenFile, lastCall, reached>>
menuVars    == <<cmd, out, typed, pending>>
agentVars   == <<history, response, returned, turn>>
vars == <<variant, driver, pc, exc, tokenFile, lastCall, reached, cmdCalls,
          cmd, out, typed, pending, history, response, returned, turn>>

\* the gateway call `o`, made with the given arguments, takes effect
Called(resource, method, params, o) ==
    /\ lastCall' = CallLog(resource, method, params, tokenFile, o)
    /\ tokenFile' = o.file
    /\ reached' = Reached(o, resource, method)
    /\ cmdCalls' = (IF driver = "direct" THEN 0 ELSE cmdCalls) + 1

\* an exception leaves the program's main loop: the process ends
Crash(e) == pc' = "crashed" /\ exc' = e

\* the access token's expiry time passes
TimePasses ==
    /\ pc \notin {"crashed", "exited"}
    /\ tokenFile.exists /\ ~tokenFile.expired
    /\ tokenFile' = [tokenFile EXCEPT !.expired = TRUE]
    /\ UNCHANGED <<variant, driver, pc, exc, lastCall, reached, cmdCalls>>
    /\ UNCHANGED menuVars /\ UNCHANGED agentVars

(***************************************************************************)
(* calendar_api_call called as a function of the module (traditional.py),  *)
(* with any resource, method and params.                                   *)
(***************************************************************************)
DirectParams ==
    {[calendarId |-> "primary"],
     [calendarId |-> "primary", eventId |-> "ev1"],
     [calendarId |-> "primary", colour |-> "red"]}

DirectCall ==
    /\ driver = "direct" /\ pc = "direct"
    /\ \E resource \in Resources, method \in Methods, params \in DirectParams :
         \E env \in Envs(method) :
           LET o == CalendarApiCall(variant, resource, method, params,
                                    tokenFile, env)
           IN  /\ Called(resource, method, params, o)
               /\ IF o.raised THEN Crash("GatewayError")
                              ELSE UNCHANGED <<pc, exc>>
    /\ UNCHANGED <<variant, driver>>
    /\ UNCHANGED menuVars /\ UNCHANGED agentVars

(***************************************************************************)
(* Menu driver: main() of traditional.py.                                  *)
(***************************************************************************)
\* lines the user may type at the prompts
D_2025_07_06 == <<"2", "0", "2", "5", "-", "0", "7", "-", "0", "6">>
D_2024_02_29 == <<"2", "0", "2", "4", "-", "0", "2", "-", "2", "9">>
D_2025_12_31 == <<"2", "0", "2", "5", "-", "1", "2", "-", "3", "1">>
D_9999_12_31 == <<"9", "9", "9", "9", "-", "1", "2", "-", "3", "1">>
D_2025_02_29 == <<"2", "0", "2", "5", "-", "0", "2", "-", "2", "9">>
D_2025_13_01 == <<"2", "0", "2", "5", "-", "1", "3", "-", "0", "1">>
D_0000_01_01 == <<"0", "0", "0", "0", "-", "0", "1", "-", "0", "1">>
D_2025_7_6   == <<"2", "0", "2", "5", "-", "7", "-", "6">>
D_slashes    == <<"0", "7", "/", "0", "6", "/", "2", "0", "2", "5">>

FetchDateInputs ==
    {D_2025_07_06, D_2024_02_29, D_2025_12_31, D_9999_12_31, D_2025_02_29,
     D_2025_13_01, D_0000_01_01, D_2025_7_6, D_slashes, <<>>}

InsertDateInputs == {D_2025_07_06, D_9999_12_31, D_2025_02_29, D_2025_7_6}

T_10_30 == <<"1", "0", ":", "3", "0">>
T_23_30 == <<"2", "3", ":", "3", "0">>
T_25_00 == <<"2", "5", ":", "0", "0">>
T_10h30 == <<"1", "0", "h", "3", "0">>

TimeInputs == {T_10_30, T_23_30, T_25_00, T_10h30, <<>>}

E_good  == <<"a", "@", "b", ".", "c">>
E_two   == <<"a", "@", "b", ".", "c", ",", " ", "d", "@", "e", ".", "f">>
E_mixed == <<"a", "@", "b", ".", "c", ",", "b", "o", "b">>
E_atat  == <<"b", "o", "b", "@", "@", "x">>
E_comma == <<"a", "@", "b", ".", "c", ",">>
E_blank == <<" ">>

EmailInputs == {E_good, E_two, E_mixed, E_atat, E_comma, E_blank, <<>>}

NoTyped == [at |-> "none", date |-> <<>>, time |-> <<>>, emails |-> <<>>]

NoPending ==
    [title |-> "", description |-> "", tz |-> "",
     dt_start |-> DateTime([y |-> 1, m |-> 1, d |-> 1], 0),
     dt_end |-> DateTime([y |-> 1, m |-> 1, d |-> 1], 0)]

\* how many times the current command has asked again
Reprompts == Cardinality({i \in 1..Len(out) : out[i].kind = "error"})

\* main(): one command read at the menu prompt
MenuCommand ==
    /\ driver = "menu" /\ pc = "menu"
    /\ \E c \in {"fetch", "insert", "exit", "quit", "delete"} :
         /\ cmd' = c
         /\ \/ c = "fetch" /\ pc' = "prompt_date" /\ out' = <<>>
            \/ c = "insert" /\ pc' = "insert_details" /\ out' = <<>>
            \/ /\ c \in {"exit", "quit"}
               /\ pc' = "exited"
               /\ out' = <<Line("info", "Goodbye.")>>
            \/ /\ c \notin {"fetch", "insert", "exit", "quit"}
               /\ pc' = "menu"
               /\ out' = <<Line("unknown",
                           "Unknown command. Choose fetch, insert, or exit.")>>
    /\ cmdCalls' = 0
    /\ lastCall' = NoCall
    /\ typed' = NoTyped
    /\ pending' = NoPending
    /\ UNCHANGED <<variant, driver, exc, tokenFile, reached>>
    /\ UNCHANGED agentVars

\* fetch_events_for_date(date_dt); an OverflowError of date_dt + 1 day is
\* caught nowhere
FetchEventsForDate(date_dt, env) ==
    IF Overflows(AddMinutes(date_dt, 1440))
    THEN /\ Crash("OverflowError")
         /\ UNCHANGED <<out, cmdCalls>>
         /\ UNCHANGED gatewayVars
    ELSE LET params == FetchParams(date_dt)
             o == CalendarApiCall(variant, "events", "list", params,
                                  tokenFile, env)
         IN  /\ Called("events", "list", params, o)
             /\ IF o.raised
                THEN Crash("GatewayError") /\ out' = out
                ELSE /\ out' = out \o FetchLog(date_dt, o.result)
                     /\ pc' = "menu"
                     /\ exc' = exc

\* the fetch command: one line read by prompt_date, and on a date the fetch
FetchDateInput ==
    /\ driver = "menu" /\ pc = "prompt_date"
    /\ \E s \in FetchDateInputs :
         LET r == PromptDate(Strip(s))
         IN  /\ typed' = [NoTyped EXCEPT !.at = "date", !.date = s]
             /\ \/ /\ ~r.ok
                   /\ Reprompts < MaxReprompts
                   /\ out' = out \o r.log
                   /\ UNCHANGED <<pc, exc, cmdCalls>>
                   /\ UNCHANGED gatewayVars
                \/ /\ r.ok
                   /\ \E env \in Envs("list") : FetchEventsForDate(r.date, env)
    /\ UNCHANGED <<variant, driver, cmd, pending>>
    /\ UNCHANGED agentVars

\* the insert command up to prompt_emails: five lines read, the start and end
\* built, or the insert aborted
InsertDetails ==
    /\ driver = "menu" /\ pc = "insert_details"
    /\ \E title \in {"", "Standup"}, tz \in {"", "America/Los_Angeles"},
          date_str \in InsertDateInputs, time_str \in TimeInputs,
          offset \in LocalOffsets :
         (title = "" <=> tz = "") /\
         LET b == BuildStart(Strip(date_str), Strip(time_str), offset)
         IN  /\ typed' = [NoTyped EXCEPT !.at = "details", !.date = date_str,
                                         !.time = time_str]
             /\ IF b.ok
                THEN /\ pending' = [title |-> OrDefault(title, "No Title"),
                                    description |-> "",
                                    tz |-> OrDefault(tz, "UTC"),
                                    dt_start |-> b.dt_start,
                                    dt_end |-> b.dt_end]
                     /\ pc' = "prompt_emails"
                     /\ out' = out
                ELSE /\ out' = out \o <<Line("aborted",
                                       "Invalid date/time. Aborting insert.")>>
                     /\ pc' = "menu"
                     /\ pending' = pending
    /\ UNCHANGED <<variant, driver, exc, cmdCalls, cmd>>
    /\ UNCHANGED gatewayVars /\ UNCHANGED agentVars

\* the rest of insert_event: one line read by prompt_emails, and on an
\* attendee list the insert
EmailsInput ==
    /\ driver = "menu" /\ pc = "prompt_emails"
    /\ \E line \in EmailInputs :
         LET r == PromptEmails(line)
             params == [calendarId |-> "primary",
                        body |-> InsertBody(pending, r.attendees)]
         IN  /\ typed' = [NoTyped EXCEPT !.at = "emails", !.emails = line]
             /\ \/ /\ ~r.ok
                   /\ Reprompts < MaxReprompts
                   /\ out' = out \o <<Line("error",
                                 "One or more emails invalid. Please retry.")>>
                   /\ UNCHANGED <<pc, exc, cmdCalls>>
                   /\ UNCHANGED gatewayVars
                \/ /\ r.ok
                   /\ \E env \in Envs("insert") :
                        LET o == CalendarApiCall(variant, "events", "insert",
                                                 params, tokenFile, env)
                        IN  /\ Called("events", "insert", params, o)
                            /\ IF o.raised
                               THEN Crash("GatewayError") /\ out' = out
                               ELSE /\ out' = out \o InsertLog(o.result)
                                    /\ pc' = "menu"
                                    /\ exc' = exc
    /\ UNCHANGED <<variant, driver, cmd, pending>>
    /\ UNCHANGED agentVars

(***************************************************************************)
(* Conversational variant: call_function, process_response and             *)
(* chat_with_agent of ai-agent.py.                                         *)
(***************************************************************************)
\* JSON text: json.dumps(v) is the well-formed text encoding v; the model may
\* also send text that does not decode, or none at all
JsonDumps(v) == [json |-> v]
MalformedJson == [garbage |-> "{resource: "]
NoText == [empty |-> TRUE]

\* call.function.arguments or "{}"
ArgumentsOrEmpty(a) == IF a = NoText THEN JsonDumps(<<>>) ELSE a

\* json.loads: the decoded value, or JSONDecodeError
JsonLoads(t) ==
    IF "json" \in DOMAIN t THEN [ok |-> TRUE, val |-> t.json]
                           ELSE [ok |-> FALSE, val |-> <<>>]

\* calendar_api_call(**args) binds iff args names exactly its parameters
BindsGateway(args) == DOMAIN args = {"resource", "method", "params"}

NotImplementedError(name) == [error |-> <<"Function not implemented.", name>>]

SystemMessage == [role |-> "system", content |-> "SYSTEM_PROMPT"]

UserMessage(text) == [role |-> "user", content |-> text]

\* the assistant message appended for a tool round
AssistantMessage(message) ==
    [role |-> "assistant", content |-> "", tool_calls |-> message.tool_calls]

\* fault: the last call of the reply is taken
MutFirstToolCall(tool_calls) == tool_calls[Len(tool_calls)]

\* call = message.tool_calls[0]
FirstToolCall(tool_calls) == tool_calls[1]

\* fault: the result is stored without json.dumps
MutToolMessage(call, result) ==
    [role |-> "tool", tool_name |-> call.function.name,
     tool_call_id |-> call.id, content |-> result]

\* the tool message appended for a tool round
ToolMessage(call, result) ==
    [role |-> "tool", tool_name |-> call.function.name,
     tool_call_id |-> call.id, content |-> JsonDumps(result)]

\* content of a reply of the model: None, or a string
NoneContent == [none |-> TRUE]
Text(str) == [str |-> str]

\* message.content or ""
ContentOrEmpty(c) == IF c = NoneContent THEN Text("") ELSE c

\* the index of the first choice that asks for a tool call, or 0
ToolChoice(resp) ==
    LET asks == {i \in 1..Len(resp) :
                    resp[i].role = "assistant" /\ resp[i].tool_calls # <<>>}
    IN  IF asks = {} THEN 0
        ELSE CHOOSE i \in asks : \A j \in asks : i <= j

\* tool calls the model may ask for
Fn(name, arguments) == [name |-> name, arguments |-> arguments]

GatewayArgs(resource, method, params) ==
    JsonDumps([resource |-> resource, method |-> method, params |-> params])

FnList   == Fn("calendar_api_call",
               GatewayArgs("events", "list", [calendarId |-> "primary"]))
FnDelete == Fn("calendar_api_call",
               GatewayArgs("events", "delete",
                           [calendarId |-> "primary", eventId |-> "ev1"]))
FnPatch  == Fn("calendar_api_call",
               GatewayArgs("events", "patch", [calendarId |-> "primary"]))
FnAcl    == Fn("calendar_api_call",
               GatewayArgs("calendars", "list", [calendarId |-> "primary"]))
FnMail   == Fn("send_email", JsonDumps(<<>>))
FnBroken == Fn("calendar_api_call", MalformedJson)
FnNoArgs == Fn("calendar_api_call", NoText)

ToolCallLists ==
    {<<f>> : f \in {FnList, FnDelete, FnPatch, FnAcl, FnMail, FnBroken,
                    FnNoArgs}}
    \cup {<<FnAcl, FnList>>}

\* the ids the model gives the calls of a reply are fresh
WithIds(fns, base) ==
    [i \in 1..Len(fns) |-> [id |-> base + i, function |-> fns[i]]]

NoReturn == [done |-> FALSE, text |-> Text("")]

\* counts of a user turn: where in the history it began, the requests made to
\* the model, the replies it gave and how many of them asked for a tool, the
\* calls of call_function, the length of the history at each request, and
\* the call executed and the result obtained in each tool round
NoTurn == [start |-> 0, modelCalls |-> 0, replies |-> 0, toolReplies |-> 0,
           dispatchCalls |-> 0, invokedAt |-> <<>>, results |-> <<>>]

NoResponse == <<[role |-> "assistant", content |-> NoneContent,
                 tool_calls |-> <<>>]>>

\* client.chat.completions.create(messages=input_messages, ...) is called
Invoked(t, h) ==
    [t EXCEPT !.modelCalls = t.modelCalls + 1,
              !.invokedAt = Append(t.invokedAt, Len(h))]

\* chat_with_agent(user_input) up to the model's first reply
ChatWithAgent ==
    /\ driver = "agent" /\ pc = "idle"
    /\ Len(history) + 1 <= MaxHistory
    /\ LET text == IF Len(history) = 1
                   THEN "What's on my calendar tomorrow?" ELSE "and then?"
           h == Append(history, UserMessage(text))
       IN  /\ history' = h
           /\ turn' = Invoked([NoTurn EXCEPT !.start = Len(history)], h)
    /\ pc' = "awaiting"
    /\ returned' = NoReturn
    /\ cmdCalls' = 0
    /\ lastCall' = NoCall
    /\ UNCHANGED <<variant, driver, exc, response, tokenFile, reached>>
    /\ UNCHANGED menuVars

\* what the model may answer: plain text (or no content), or a request for
\* tool calls whose ids are fresh
Replies(h) ==
    {<<[role |-> "assistant", content |-> c, tool_calls |-> <<>>]>> :
        c \in {NoneContent, Text(""), Text("You have 2 events.")}}
    \cup {<<[role |-> "assistant", content |-> NoneContent,
             tool_calls |-> WithIds(fns, 10 * Len(h))]>> :
             fns \in ToolCallLists}

\* the request to the model raises (network, authentication, quota)
ModelApiFails ==
    /\ driver = "agent" /\ pc = "awaiting"
    /\ Crash("APIError")
    /\ UNCHANGED <<variant, driver, cmdCalls>>
    /\ UNCHANGED gatewayVars /\ UNCHANGED menuVars /\ UNCHANGED agentVars

\* fault: a cap of two tool rounds per turn
MutAfterToolRound(rounds) == IF rounds >= 2 THEN "idle" ELSE "awaiting"

\* return process_response(new_resp): whatever the number of rounds so far,
\* the next reply of the model is processed
AfterToolRound(rounds) == "awaiting"

\* the two appends of a tool round and the next request to the model
ToolRound(message, call, result) ==
    /\ history' = history \o <<AssistantMessage(message),
                               ToolMessage(call, result)>>
    /\ turn' = Invoked([turn EXCEPT
                           !.replies = turn.replies + 1,
                           !.toolReplies = turn.toolReplies + 1,
                           !.dispatchCalls = turn.dispatchCalls + 1,
                           !.results = Append(turn.results,
                                          [id |-> call.id, result |-> result])],
                       history')
    /\ pc' = AfterToolRound(turn.dispatchCalls + 1)
    /\ exc' = exc
    /\ returned' = returned

\* an exception leaves process_response in a tool round, before the appends:
\* json.loads raises before call_function is called, the others inside it
RoundRaises(e) ==
    /\ Crash(e)
    /\ turn' = [turn EXCEPT !.replies = turn.replies + 1,
                            !.toolReplies = turn.toolReplies + 1,
                            !.dispatchCalls =
                                IF e = "JSONDecodeError"
                                THEN turn.dispatchCalls
                                ELSE turn.dispatchCalls + 1]
    /\ UNCHANGED <<history, returned>>

\* the final branch: return response.choices[0].message.content or ""
FinalReply(resp) ==
    /\ returned' = [done |-> TRUE, text |-> ContentOrEmpty(resp[1].content)]
    /\ pc' = "idle"
    /\ turn' = [turn EXCEPT !.replies = turn.replies + 1]
    /\ UNCHANGED <<exc, history, cmdCalls>>
    /\ UNCHANGED gatewayVars

\* call_function(name, args) and what process_response does with its result
CallFunction(message, call, name, args) ==
    IF name # "calendar_api_call"
    THEN /\ ToolRound(message, call, NotImplementedError(name))
         /\ UNCHANGED cmdCalls
         /\ UNCHANGED gatewayVars
    ELSE IF ~BindsGateway(args)
    THEN /\ RoundRaises("TypeError")
         /\ UNCHANGED cmdCalls
         /\ UNCHANGED gatewayVars
    ELSE \E env \in Envs(args.method) :
           LET o == CalendarApiCall(variant, args.resource, args.method,
                                    args.params, tokenFile, env)
           IN  /\ Called(args.resource, args.method, args.params, o)
               /\ IF o.raised THEN RoundRaises("GatewayError")
                              ELSE ToolRound(message, call, o.result)

\* process_response(response) on the reply the model gave: the final reply is
\* returned; a tool call is decoded, dispatched by call_function, recorded,
\* and the model is asked again.  A reply asking for tool calls is considered
\* while the history has room for the round.
ProcessResponse ==
    /\ driver = "agent" /\ pc = "awaiting"
    /\ \E resp \in Replies(history) :
         /\ response' = resp
         /\ LET k == ToolChoice(resp)
            IN  IF k = 0 THEN FinalReply(resp)
                ELSE
                LET message == resp[k]
                    call == FirstToolCall(message.tool_calls)
                    name == call.function.name
                    args == JsonLoads(ArgumentsOrEmpty(call.function.arguments))
                IN  /\ Len(history) + 2 <= MaxHistory
                    /\ IF ~args.ok
                       THEN /\ RoundRaises("JSONDecodeError")
                            /\ UNCHANGED cmdCalls
                            /\ UNCHANGED gatewayVars
                       ELSE CallFunction(message, call, name, args.val)
    /\ UNCHANGED <<variant, driver>>
    /\ UNCHANGED menuVars

\* the user types exit or quit at the "You: " prompt
AgentExit ==
    /\ driver = "agent" /\ pc = "idle"
    /\ Len(history) > 1
    /\ pc' = "exited"
    /\ UNCHANGED <<variant, driver, exc, cmdCalls>>
    /\ UNCHANGED gatewayVars /\ UNCHANGED menuVars /\ UNCHANGED agentVars

(***************************************************************************)
(* The programs.                                                           *)
(***************************************************************************)
Init ==
    /\ variant \in Variants
    /\ driver \in (IF variant = "agent" THEN {"agent"} ELSE {"menu", "direct"})
    /\ pc = (CASE driver = "agent" -> "idle"
               [] driver = "menu"  -> "menu"
               [] OTHER            -> "direct")
    /\ exc = "none"
    /\ tokenFile \in TokenFiles
    /\ lastCall = NoCall
    /\ reached = {}
    /\ cmdCalls = 0
    /\ cmd = "none"
    /\ out = <<>>
    /\ typed = NoTyped
    /\ pending = NoPending
    /\ history = <<SystemMessage>>
    /\ response = NoResponse
    /\ returned = NoReturn
    /\ turn = NoTurn

Next ==
    \/ TimePasses
    \/ DirectCall
    \/ MenuCommand
    \/ FetchDateInput
    \/ InsertDetails
    \/ EmailsInput
    \/ ChatWithAgent
    \/ ModelApiFails
    \/ ProcessResponse
    \/ AgentExit

Spec == Init /\ [][Next]_vars

(***************************************************************************)
(* Properties.                                                             *)
(***************************************************************************)
\* the whitelist as sections 3 and 6 of the specification state it
Whitelisted(v, resource, method) ==
    /\ resource = "events"
    /\ \/ v = "agent" /\ method \in {"list", "insert", "update", "delete"}
       \/ v = "menu" /\ method \in {"list", "insert"}

\* get_calendar_service was entered by the logged call
Obtained == lastCall.made /\ Whitelisted(variant, lastCall.resource,
                                         lastCall.method)

\* C1: a call whose resource is not "events" or whose method is outside the
\* variant's permitted set returns {"error": "Method or resource not
\* allowed."} and does nothing else: no read or write of the token file, no
\* refresh, no consent flow, no client, no request; and every request that
\* reached the Calendar service had a whitelisted (resource, method).
C1_WhitelistGate ==
    /\ \A p \in reached : Whitelisted(variant, p[1], p[2])
    /\ (lastCall.made /\ ~Whitelisted(variant, lastCall.resource,
                                      lastCall.method))
         => /\ lastCall.result = [error |-> "Method or resource not allowed."]
            /\ ~lastCall.raised
            /\ lastCall.reads = 0 /\ lastCall.writes = 0
            /\ lastCall.refreshes = 0 /\ lastCall.flows = 0
            /\ lastCall.builds = 0 /\ lastCall.requests = 0
            /\ lastCall.exit = lastCall.entry
            /\ tokenFile.exists = lastCall.entry.exists

\* a call rejected in the menu variant for a method the other variant permits
C1_Witness ==
    /\ variant = "menu" /\ lastCall.made
    /\ lastCall.resource = "events" /\ lastCall.method = "update"
    /\ lastCall.result = NotAllowedError

\* C2: the gateway never raises to its caller: an exception while obtaining
\* the credential (a failed refresh or consent flow), building the client,
\* expanding params or executing the request ends in the value
\* {"error": <message>}, which the caller receives: the menu command logs
\* and returns to the menu, the conversational round hands the encoded error
\* to the model.
C2_GatewayNeverRaises ==
    /\ exc # "GatewayError"
    /\ lastCall.made =>
         /\ ~lastCall.raised
         /\ lastCall.failedAt # "none" =>
              /\ DOMAIN lastCall.result = {"error"}
              /\ lastCall.result.error # "unset"
              /\ Obtained
         /\ driver = "menu" => pc = "menu" /\ out # <<>>
         /\ driver = "agent" =>
              \E i \in 1..Len(history) :
                  /\ history[i].role = "tool"
                  /\ history[i].content = [json |-> lastCall.result]

\* a consent flow that failed inside a conversational tool round
C2_Witness ==
    /\ driver = "agent" /\ lastCall.made
    /\ lastCall.failedAt = "flow" /\ lastCall.flows = 1
    /\ pc = "awaiting"

\* C3: a completed turn in which the model asked for a tool k times and then
\* answered in plain text returned that text ("" for no content), made k + 1
\* requests to the model and k calls of the dispatcher, and between two
\* consecutive requests appended exactly an assistant tool-call message and
\* then a tool message carrying the id of the executed call and the JSON
\* encoding of its result.
C3_TurnShape ==
    (driver = "agent" /\ returned.done) =>
        LET k == turn.toolReplies
            last == response[1].content
        IN  /\ response[1].tool_calls = <<>>
            /\ returned.text = (IF "str" \in DOMAIN last THEN last
                                                         ELSE [str |-> ""])
            /\ turn.modelCalls = k + 1
            /\ turn.dispatchCalls = k
            /\ Len(turn.invokedAt) = k + 1
            /\ Len(turn.results) = k
            /\ turn.invokedAt[1] = turn.start + 1
            /\ Len(history) = turn.start + 1 + 2 * k
            /\ \A i \in 1..k :
                 LET at == turn.invokedAt[i]
                 IN  /\ turn.invokedAt[i + 1] = at + 2
                     /\ history[at + 1].role = "assistant"
                     /\ history[at + 1].tool_calls # <<>>
                     /\ history[at + 2].role = "tool"
                     /\ history[at + 2].tool_call_id = turn.results[i].id
                     /\ history[at + 2].content
                            = [json |-> turn.results[i].result]

\* a turn of two tool rounds that ended in a text reply
C3_Witness ==
    /\ driver = "agent" /\ returned.done
    /\ turn.toolReplies = 2
    /\ returned.text = [str |-> "You have 2 events."]

\* get_calendar_service was entered with a credential on file that is ...
EnteredExpiredRefreshable ==
    Obtained /\ lastCall.entry.exists /\ lastCall.entry.expired
             /\ lastCall.entry.refresh_token

EnteredValid ==
    Obtained /\ lastCall.entry.exists /\ ~lastCall.entry.expired

\* C4 as stated: entered with an expired credential that has a refresh token,
\* get_calendar_service always makes exactly one refresh call and exactly one
\* write of the token file, and never starts the consent flow.
C4_Original ==
    EnteredExpiredRefreshable =>
        lastCall.refreshes = 1 /\ lastCall.writes = 1 /\ lastCall.flows = 0

\* C4 (amended): entered with an expired credential that has a refresh token,
\* get_calendar_service makes exactly one refresh call and never starts the
\* consent flow; it writes the token file exactly once, with the refreshed
\* credential, when the refresh call succeeds, and not at all when the
\* refresh call raises.
C4_RefreshOnceSaveOnSuccess ==
    EnteredExpiredRefreshable =>
        /\ lastCall.refreshes = 1
        /\ lastCall.flows = 0
        /\ IF lastCall.failedAt = "refresh"
           THEN lastCall.writes = 0 /\ lastCall.exit = lastCall.entry
           ELSE /\ lastCall.writes = 1
                /\ lastCall.exit = [exists |-> TRUE, expired |-> FALSE,
                                    refresh_token |-> TRUE]

\* a refresh that succeeded, followed by the request
C4_Witness ==
    /\ EnteredExpiredRefreshable
    /\ lastCall.failedAt = "none" /\ lastCall.requests = 1
    /\ lastCall.writes = 1

\* C5: entered with a valid credential on file, get_calendar_service uses it
\* as it is: no refresh call, no consent flow, no write of the token file;
\* for every call of a sequence made while the credential is valid.
C5_ValidUnchanged ==
    EnteredValid =>
        /\ lastCall.refreshes = 0
        /\ lastCall.flows = 0
        /\ lastCall.writes = 0
        /\ lastCall.exit = lastCall.entry
        /\ lastCall.reads = 1 /\ lastCall.builds = 1

\* the second gateway call of a turn, made with a valid credential that the
\* first call found valid too (nothing was written since the turn began)
C5_Witness ==
    /\ driver = "agent" /\ EnteredValid
    /\ cmdCalls = 2 /\ lastCall.requests = 1
    /\ lastCall.entry.refresh_token

\* the lines of the input sets that are well-formed, told by hand: dates
\* YYYY-MM-DD that exist, times HH:MM of a day, and attendee lines with the
\* list each stands for
WellFormedDates == {D_2025_07_06, D_2024_02_29, D_2025_12_31, D_9999_12_31}
WellFormedTimes == {T_10_30, T_23_30}

AttendeeLines ==
    {<<E_good, <<[email |-> <<"a", "@", "b", ".", "c">>]>> >>,
     <<E_two, <<[email |-> <<"a", "@", "b", ".", "c">>],
                [email |-> <<"d", "@", "e", ".", "f">>]>> >>,
     <<E_blank, <<>> >>,
     << <<>>, <<>> >>}

WellFormedAttendees == {p[1] : p \in AttendeeLines}

\* the last line typed was malformed, at the prompt named
MalformedAt(prompt) ==
    /\ driver = "menu" /\ typed.at = prompt
    /\ CASE prompt = "date"    -> typed.date \notin WellFormedDates
         [] prompt = "details" -> \/ typed.date \notin WellFormedDates
                                  \/ typed.time \notin WellFormedTimes
         [] OTHER              -> typed.emails \notin WellFormedAttendees

\* an insert reached the gateway
InsertSent ==
    driver = "menu" /\ lastCall.made /\ lastCall.method = "insert"

\* no attendee list with an invalid entry, and no part of a list, is sent:
\* what is sent is the whole list the accepted line stands for
WholeValidListSent ==
    InsertSent =>
        /\ typed.at = "emails"
        /\ \E p \in AttendeeLines :
             /\ p[1] = typed.emails
             /\ lastCall.params.body.attendees = p[2]

\* no exception reaches the menu loop because of a malformed line
NoCrashOnMalformed ==
    (driver = "menu" /\ pc = "crashed") =>
        ~MalformedAt("date") /\ ~MalformedAt("details")
        /\ ~MalformedAt("emails")

DayAfter(s) ==
    CASE s = D_2025_07_06 -> <<2025, 7, 7>>
      [] s = D_2024_02_29 -> <<2024, 3, 1>>
      [] s = D_2025_12_31 -> <<2026, 1, 1>>
      [] OTHER            -> <<10000, 1, 1>>

SameDay(s) ==
    CASE s = D_2025_07_06 -> <<2025, 7, 6>>
      [] s = D_2024_02_29 -> <<2024, 2, 29>>
      [] s = D_2025_12_31 -> <<2025, 12, 31>>
      [] OTHER            -> <<9999, 12, 31>>

Kinds(lines, kind) == {i \in 1..Len(lines) : lines[i].kind = kind}

\* prompt_date has accepted a date for the fetch command
FetchValidated ==
    /\ driver = "menu" /\ cmd = "fetch"
    /\ typed.at = "date" /\ typed.date \in WellFormedDates

\* C7: fetch, once a date has validated, issues exactly one gateway call,
\* events.list with timeMin / timeMax at 00:00 UTC of the date and of the
\* day after; on an empty item list it logs exactly one "No events found on
\* <date>." and no event line, otherwise one line for each event returned,
\* in the order returned; and every menu command makes at most one gateway
\* call.
C7_FetchOneListCall ==
    /\ driver = "menu" => cmdCalls <= 1
    /\ FetchValidated =>
         /\ pc = "menu" /\ exc = "none"
         /\ cmdCalls = 1 /\ lastCall.made /\ lastCall.requests <= 1
         /\ lastCall.resource = "events" /\ lastCall.method = "list"
         /\ lastCall.params.timeMin
              = [date |-> SameDay(typed.date), time |-> <<0, 0>>,
                 offset |-> "+00:00"]
         /\ lastCall.params.timeMax
              = [date |-> DayAfter(typed.date), time |-> <<0, 0>>,
                 offset |-> "+00:00"]
         /\ LET items == IF "items" \in DOMAIN lastCall.result
                         THEN lastCall.result.items ELSE <<>>
                shown == SubSeq(out, Len(out) - Len(items) + 1, Len(out))
            IN  IF items = <<>>
                THEN /\ Cardinality(Kinds(out, "no_events")) = 1
                     /\ Kinds(out, "event") = {}
                     /\ out[Len(out)].date = SameDay(typed.date)
                ELSE /\ Kinds(out, "no_events") = {}
                     /\ Cardinality(Kinds(out, "event")) = Len(items)
                     /\ \A i \in 1..Len(items) :
                          /\ shown[i].kind = "event"
                          /\ shown[i].title = (IF "summary" \in DOMAIN items[i]
                                               THEN items[i].summary
                                               ELSE "(no title)")

\* C7 for every date whose day after exists for datetime
C7_ExceptLastDay ==
    /\ driver = "menu" => cmdCalls <= 1
    /\ typed.date # D_9999_12_31 => C7_FetchOneListCall

\* C8: a response with an "error" key is a failure to every caller: in the
\* menu variant fetch reports a failure for it (neither "No events found"
\* nor a list of events), and insert reports the failure with the error
\* payload and never success.
C8_ErrorIsFailure ==
    (driver = "menu" /\ lastCall.made /\ "error" \in DOMAIN lastCall.result)
      => /\ pc = "menu"
         /\ cmd = "fetch" =>
              /\ Kinds(out, "no_events") = {}
              /\ Kinds(out, "events_header") = {}
              /\ Kinds(out, "event") = {}
         /\ cmd = "insert" =>
              /\ Kinds(out, "created") = {}
              /\ out[Len(out)] = [kind |-> "failed",
                                  payload |-> lastCall.result]

\* C8 for insert alone
C8_InsertReportsFailure ==
    cmd = "insert" => C8_ErrorIsFailure

\* a reply of the model is processed in this step
ReplyStep == turn'.replies = turn.replies + 1

\* C9: a turn has no cap on tool rounds.  It returns a reply exactly when the
\* model gives a reply without a tool call; a reply that asks for a tool call
\* never ends the turn with a reply, whatever the number of rounds so far:
\* the round adds one dispatcher call, one request to the model and two
\* history messages, and the next reply is awaited (a round is left otherwise
\* only by an exception that ends the process).
C9_NoRoundCap ==
    [][driver = "agent" =>
        /\ (pc = "awaiting" /\ pc' = "idle") =>
              ReplyStep /\ response'[1].tool_calls = <<>>
        /\ (~returned.done /\ returned'.done) =>
              ReplyStep /\ response'[1].tool_calls = <<>>
        /\ ReplyStep =>
              IF response'[1].tool_calls = <<>>
              THEN /\ pc' = "idle" /\ returned'.done
                   /\ history' = history
                   /\ turn'.modelCalls = turn.modelCalls
                   /\ turn'.dispatchCalls = turn.dispatchCalls
              ELSE /\ pc' \in {"awaiting", "crashed"}
                   /\ ~returned'.done
                   /\ pc' = "crashed" =>
                        /\ exc' \in {"JSONDecodeError", "TypeError"}
                        /\ history' = history
                   /\ pc' = "awaiting" =>
                        /\ turn'.dispatchCalls = turn.dispatchCalls + 1
                        /\ turn'.modelCalls = turn.modelCalls + 1
                        /\ Len(history') = Len(history) + 2
      ]_vars

\* three tool rounds done in one turn, and the next reply is awaited
C9_Witness ==
    /\ driver = "agent" /\ pc = "awaiting"
    /\ turn.dispatchCalls = 3 /\ turn.modelCalls = 4
    /\ Len(history) = turn.start + 7

\* h is g with messages appended
IsPrefix(g, h) == Len(g) <= Len(h) /\ SubSeq(h, 1, Len(g)) = g

\* the shape of input_messages: the system message, then user messages each
\* followed by pairs of an assistant tool-call message and the tool message
\* of its first call
HistoryShape(h) ==
    /\ Len(h) >= 1
    /\ h[1] = [role |-> "system", content |-> "SYSTEM_PROMPT"]
    /\ Len(h) >= 2 => h[2].role = "user"
    /\ \A i \in 2..Len(h) :
         /\ h[i].role \in {"user", "assistant", "tool"}
         /\ h[i].role = "user" => h[i - 1].role \in {"system", "user", "tool"}
         /\ h[i].role = "assistant" =>
              /\ h[i - 1].role \in {"user", "tool"}
              /\ h[i].content = ""
              /\ h[i].tool_calls # <<>>
              /\ i < Len(h)
              /\ h[i + 1].role = "tool"
              /\ h[i + 1].tool_call_id = h[i].tool_calls[1].id
              /\ h[i + 1].tool_name = h[i].tool_calls[1].function.name
         /\ h[i].role = "tool" =>
              /\ h[i - 1].role = "assistant"
              /\ \A j \in 2..Len(h) :
                   h[j].role = "assistant" =>
                     \A n \in 2..Len(h[j].tool_calls) :
                        h[j].tool_calls[n].id # h[i].tool_call_id

\* an assistant message of h lists a call id that no tool message answers
UnansweredCall(h) ==
    \E j \in 1..Len(h) :
        /\ h[j].role = "assistant"
        /\ \E n \in 1..Len(h[j].tool_calls) :
             \A i \in 1..Len(h) :
                h[i].role = "tool" =>
                    h[i].tool_call_id # h[j].tool_calls[n].id

\* C10: the history is append-only and always has the shape: the system
\* message, then for each turn its user message followed by the turn's
\* (assistant tool-call message, tool message) pairs.  The final text reply
\* is returned and not appended, so no assistant message is without tool
\* calls; of several tool calls in a reply only the first is executed and
\* answered, so ids of later calls have no tool message.
C10_HistoryShape ==
    /\ [](HistoryShape(history))
    /\ [][/\ IsPrefix(history, history')
          /\ (~returned.done /\ returned'.done) => history' = history
          /\ Len(history') > Len(history) =>
               \/ /\ Len(history') = Len(history) + 1
                  /\ history'[Len(history')].role = "user"
                  /\ pc = "idle"
               \/ /\ Len(history') = Len(history) + 2
                  /\ history'[Len(history')].role = "tool"
                  /\ pc = "awaiting"
       ]_vars

\* two completed turns, the first with a reply of two tool calls of which the
\* second has no tool message
C10_Witness ==
    /\ driver = "agent" /\ pc = "idle" /\ returned.done
    /\ Cardinality({i \in 1..Len(history) : history[i].role = "user"}) = 2
    /\ history[Len(history)].role = "tool"
    /\ UnansweredCall(history)

=============================================================================
